---------------------------- MODULE Spec2Model ----------------------------
(***************************************************************************)
(* Model of backend/signature_example.rs: the construction, canonical      *)
(* (BCS) serialization and Ed25519 signing of a MintProofChallenge.        *)
(*                                                                         *)
(* Every invocation of generate_nft_tutorial_part4_signature owns its      *)
(* locals; the variables below are functions from invocation ids to the    *)
(* value of the local of that name.  Bytes are integers 0..255, byte       *)
(* strings are sequences of bytes.                                         *)
(***************************************************************************)
EXTENDS Integers, Sequences, FiniteSets, TLC

VARIABLES
    pc,                    \* position of each invocation in the function body
    input,                 \* the literals of the body (lines 59, 64, 69, 76-86)
    resource_address,      \* line 59
    nft_receiver,          \* line 64
    admin_private_key,     \* lines 68-71
    token_data_id,         \* lines 74-78
    mint_proof,            \* lines 80-89
    mint_proof_msg,        \* line 92, a Result
    mint_proof_signature,  \* line 94
    stdout,                \* lines 95-98, what println! wrote
    panic                  \* the error an unwrap() panicked with, "" when none

vars == <<pc, input, resource_address, nft_receiver, admin_private_key,
          token_data_id, mint_proof, mint_proof_msg, mint_proof_signature,
          stdout, panic>>

(***************************************************************************)
(* Option and Result                                                       *)
(***************************************************************************)
None == [some |-> FALSE]

Some(v) == [some |-> TRUE, val |-> v]

Ok(v) == [ok |-> TRUE, val |-> v]

Err(e) == [ok |-> FALSE, err |-> e]

(***************************************************************************)
(* Widths                                                                  *)
(***************************************************************************)
ACCOUNT_ADDRESS_LENGTH == 32

ED25519_PRIVATE_KEY_LENGTH == 32

U64_BYTES == 8

\* Longest byte string of the two-invocation specification's inputs.
MaxShortLen == 2

(***************************************************************************)
(* Byte strings                                                            *)
(***************************************************************************)
\* n copies of byte b
Fill(n, b) == [i \in 1..n |-> b]

\* Stands for every byte string longer than bcs::MAX_SEQUENCE_LENGTH
\* (2^31 - 1 bytes): no sequence of that length can be written down, so one
\* value that is no byte string represents them all.
OVERLONG == <<-1>>

ExceedsMaxSequenceLength(b) == b = OVERLONG

RECURSIVE Concat(_)
\* the concatenation of a sequence of byte strings
Concat(parts) ==
    IF parts = <<>> THEN <<>> ELSE Head(parts) \o Concat(Tail(parts))

Drop(s, n) == SubSeq(s, n + 1, Len(s))

Take(s, n) == SubSeq(s, 1, n)

(***************************************************************************)
(* Hexadecimal text (hex::decode, AccountAddress::from_hex_literal,        *)
(* ValidCryptoMaterialStringExt::from_encoded_string).  A text is a        *)
(* sequence of one-character strings.                                      *)
(***************************************************************************)
LowerHex ==
    <<"0", "1", "2", "3", "4", "5", "6", "7", "8", "9",
      "a", "b", "c", "d", "e", "f">>

UpperHex ==
    <<"0", "1", "2", "3", "4", "5", "6", "7", "8", "9",
      "A", "B", "C", "D", "E", "F">>

IsHexDigit(ch) == \E v \in 1..16 : LowerHex[v] = ch \/ UpperHex[v] = ch

HexValue(ch) == (CHOOSE v \in 1..16 : LowerHex[v] = ch \/ UpperHex[v] = ch) - 1

HexDecode(text) ==
    IF Len(text) % 2 # 0 THEN Err("OddLength")
    ELSE IF \E i \in 1..Len(text) : ~IsHexDigit(text[i])
    THEN Err("InvalidHexCharacter")
    ELSE Ok([i \in 1..(Len(text) \div 2) |->
                16 * HexValue(text[2 * i - 1]) + HexValue(text[2 * i])])

HasPrefix0x(text) == Len(text) >= 2 /\ text[1] = "0" /\ text[2] = "x"

\* AccountAddress::from_hex_literal: "0x" then at most 64 digits, short
\* literals padded on the left with zeros.
FromHexLiteral(text) ==
    IF ~HasPrefix0x(text) THEN Err("AccountAddressParseError")
    ELSE LET digits == Drop(text, 2)
             missing == 2 * ACCOUNT_ADDRESS_LENGTH - Len(digits)
         IN  IF missing < 0 \/ Len(digits) = 0
             THEN Err("AccountAddressParseError")
             ELSE LET bytes == HexDecode(Fill(missing, "0") \o digits)
                  IN  IF bytes.ok THEN bytes
                      ELSE Err("AccountAddressParseError")

\* Ed25519PrivateKey::from_encoded_string: an optional "0x", hex::decode,
\* then TryFrom<&[u8]>, which takes exactly 32 bytes.
FromEncodedString(text) ==
    LET digits == IF HasPrefix0x(text) THEN Drop(text, 2) ELSE text
        bytes == HexDecode(digits)
    IN  IF ~bytes.ok THEN Err("CryptoMaterialError")
        ELSE IF Len(bytes.val) # ED25519_PRIVATE_KEY_LENGTH
        THEN Err("CryptoMaterialError")
        ELSE bytes

(***************************************************************************)
(* BCS primitives                                                          *)
(***************************************************************************)
RECURSIVE Uleb128(_)
\* a length as ULEB128: 7 bits per byte, low group first, bit 7 set on every
\* byte but the last
Uleb128(n) ==
    IF n < 128 THEN <<n>>
    ELSE <<(n % 128) + 128>> \o Uleb128(n \div 128)

RECURSIVE LittleEndian(_, _)
\* the width low-order bytes of n, least significant first
LittleEndian(n, width) ==
    IF width = 0 THEN <<>>
    ELSE <<n % 256>> \o LittleEndian(n \div 256, width - 1)

SerializeU64(n) == LittleEndian(n, U64_BYTES)

\* Vec<u8>: the length as ULEB128, then the bytes
SerializeBytes(b) == Uleb128(Len(b)) \o b

\* String: as the byte string of its UTF-8 text
SerializeStr(s) == Uleb128(Len(s)) \o s

\* AccountAddress: a fixed array of 32 u8, each written as itself
SerializeAddress(a) == [i \in 1..ACCOUNT_ADDRESS_LENGTH |-> a[i]]

(***************************************************************************)
(* The records (derive(Serialize) writes the fields in declared order)     *)
(***************************************************************************)
\* a faulty TokenDataId: creator declared Vec<u8>, so length-prefixed
SerializeTokenDataIdPrefixedCreator(t) ==
    Concat(<<SerializeBytes(t.creator),
             SerializeBytes(t.collection),
             SerializeBytes(t.name)>>)

\* a faulty TokenDataId: collection and name written without their lengths
SerializeTokenDataIdNoPrefix(t) ==
    Concat(<<SerializeAddress(t.creator), t.collection, t.name>>)

SerializeTokenDataId(t) ==
    Concat(<<SerializeAddress(t.creator),
             SerializeBytes(t.collection),
             SerializeBytes(t.name)>>)

\* a faulty MintProofChallenge: token_data_id held as its serialized bytes
\* (a Vec<u8>), so wrapped in a length
SerializeMintProofChallengeNested(c) ==
    Concat(<<SerializeAddress(c.account_address),
             SerializeStr(c.module_name),
             SerializeStr(c.struct_name),
             SerializeU64(c.receiver_account_sequence_number),
             SerializeAddress(c.receiver_account_address),
             SerializeBytes(SerializeTokenDataId(c.token_data_id))>>)

\* a faulty MintProofChallenge: strings with a fixed 8-byte length in
\* front, as an encoding without compact lengths writes them
SerializeMintProofChallengeFixedLengths(c) ==
    Concat(<<SerializeAddress(c.account_address),
             LittleEndian(Len(c.module_name), 8) \o c.module_name,
             LittleEndian(Len(c.struct_name), 8) \o c.struct_name,
             SerializeU64(c.receiver_account_sequence_number),
             SerializeAddress(c.receiver_account_address),
             SerializeTokenDataId(c.token_data_id)>>)

\* a faulty MintProofChallenge: the sequence number declared u32
SerializeMintProofChallengeU32(c) ==
    Concat(<<SerializeAddress(c.account_address),
             SerializeStr(c.module_name),
             SerializeStr(c.struct_name),
             LittleEndian(c.receiver_account_sequence_number, 4),
             SerializeAddress(c.receiver_account_address),
             SerializeTokenDataId(c.token_data_id)>>)

\* a faulty MintProofChallenge: struct_name declared before module_name
SerializeMintProofChallengeSwapped(c) ==
    Concat(<<SerializeAddress(c.account_address),
             SerializeStr(c.struct_name),
             SerializeStr(c.module_name),
             SerializeU64(c.receiver_account_sequence_number),
             SerializeAddress(c.receiver_account_address),
             SerializeTokenDataId(c.token_data_id)>>)

SerializeMintProofChallenge(c) ==
    Concat(<<SerializeAddress(c.account_address),
             SerializeStr(c.module_name),
             SerializeStr(c.struct_name),
             SerializeU64(c.receiver_account_sequence_number),
             SerializeAddress(c.receiver_account_address),
             SerializeTokenDataId(c.token_data_id)>>)

\* the variable-length fields of a challenge
VariableLengthFields(c) ==
    <<c.module_name, c.struct_name,
      c.token_data_id.collection, c.token_data_id.name>>

\* bcs::to_bytes(&mint_proof)
ToBytesResult(c) ==
    IF \E i \in 1..4 : ExceedsMaxSequenceLength(VariableLengthFields(c)[i])
    THEN Err("ExceededMaxLen")
    ELSE Ok(SerializeMintProofChallenge(c))

(***************************************************************************)
(* Ed25519, as an ideal signature scheme                                   *)
(***************************************************************************)
PublicKeyOf(private_key) == [public_of |-> private_key]

SignArbitraryMessage(private_key, message) ==
    [signer |-> PublicKeyOf(private_key), message |-> message]

Verify(message, signature, public_key) ==
    signature.signer = public_key /\ signature.message = message

(***************************************************************************)
(* The literals of the source                                              *)
(***************************************************************************)
RESOURCE_ADDRESS_LITERAL ==
    <<"0", "x", "a", "5", "9", "f", "b", "4", "d", "b", "d", "3", "7", "7",
      "a", "7", "9", "6", "4", "2", "8", "3", "e", "9", "1", "1", "7", "9",
      "1", "e", "5", "b", "6", "f", "2", "9", "1", "2", "3", "6", "2", "8",
      "1", "d", "8", "2", "e", "1", "c", "c", "f", "e", "2", "4", "d", "3",
      "3", "1", "c", "5", "b", "6", "4", "e", "f", "1">>

NFT_RECEIVER_LITERAL ==
    <<"0", "x", "f", "8", "f", "a", "7", "e", "9", "0", "6", "8", "0", "f",
      "e", "f", "5", "4", "0", "2", "b", "f", "1", "8", "2", "0", "d", "1",
      "d", "a", "c", "7", "c", "d", "4", "d", "1", "8", "8", "2", "4", "a",
      "9", "8", "9", "3", "7", "5", "9", "8", "0", "b", "b", "1", "f", "9",
      "d", "7", "c", "9", "d", "3", "7", "3", "b", "c">>

CAFE_LITERAL == <<"0", "x", "c", "a", "f", "e">>

ADMIN_PRIVATE_KEY_STRING ==
    <<"B", "2", "F", "9", "7", "F", "8", "D", "5", "2", "E", "B", "B", "7",
      "E", "4", "0", "4", "B", "7", "F", "1", "1", "7", "D", "2", "C", "3",
      "3", "9", "B", "9", "D", "1", "4", "3", "0", "9", "9", "3", "2", "7",
      "4", "F", "7", "7", "5", "0", "8", "4", "4", "C", "3", "5", "A", "E",
      "8", "1", "7", "3", "B", "E", "1", "4">>

\* "create_nft_getting_production_ready"
MODULE_NAME ==
    <<99, 114, 101, 97, 116, 101, 95, 110, 102, 116, 95, 103, 101, 116, 116,
      105, 110, 103, 95, 112, 114, 111, 100, 117, 99, 116, 105, 111, 110, 95,
      114, 101, 97, 100, 121>>

\* "MintProofChallenge"
STRUCT_NAME ==
    <<77, 105, 110, 116, 80, 114, 111, 111, 102, 67, 104, 97, 108, 108, 101,
      110, 103, 101>>

\* "Collection name"
COLLECTION_NAME ==
    <<67, 111, 108, 108, 101, 99, 116, 105, 111, 110, 32, 110, 97, 109, 101>>

\* "Token name"
TOKEN_NAME == <<84, 111, 107, 101, 110, 32, 110, 97, 109, 101>>

(***************************************************************************)
(* Inputs of the full function body (specification Spec)                   *)
(***************************************************************************)
\* line 59, line 60, and a literal without its "0x"
ResourceLiterals ==
    {RESOURCE_ADDRESS_LITERAL, CAFE_LITERAL, <<"c", "a", "f", "e">>}

\* line 64 and line 65
ReceiverLiterals == {NFT_RECEIVER_LITERAL, CAFE_LITERAL}

\* line 69, the "(0000...)" placeholder of line 67, a key one byte short and
\* a key with a character that is no hex digit
KeyStrings ==
    {ADMIN_PRIVATE_KEY_STRING,
     Fill(2 * ED25519_PRIVATE_KEY_LENGTH, "0"),
     Take(ADMIN_PRIVATE_KEY_STRING, 2 * ED25519_PRIVATE_KEY_LENGTH - 2),
     <<"G">> \o Tail(ADMIN_PRIVATE_KEY_STRING)}

\* the lengths on both sides of the one-byte/two-byte prefix boundary
BoundaryLengths == {0, 1, 127, 128, 300}

\* replacements for the string literals of lines 76, 77, 82, 83
ReplacementStrings == {Fill(n, 97) : n \in BoundaryLengths} \cup {OVERLONG}

\* the four strings, in the order module_name, struct_name, collection,
\* name: the literals with those of the positions in replaced replaced by s
Replaced(replaced, s) ==
    <<IF 1 \in replaced THEN s ELSE MODULE_NAME,
      IF 2 \in replaced THEN s ELSE STRUCT_NAME,
      IF 3 \in replaced THEN s ELSE COLLECTION_NAME,
      IF 4 \in replaced THEN s ELSE TOKEN_NAME>>

\* the four strings with four of the boundary lengths, starting at the k-th
Ramp(k) ==
    LET lengths == <<0, 1, 127, 128, 300>>
    IN  [i \in 1..4 |-> Fill(lengths[((i + k) % 5) + 1], 97)]

StringProfiles ==
    {Replaced(replaced, s) :
        replaced \in SUBSET (1..4), s \in ReplacementStrings}
    \cup {Ramp(k) : k \in 0..4}

\* line 86's 2 and values with other bytes set, up to the largest integer
\* TLC computes with
SequenceNumbers == {0, 2, 258, 16909060, 2147483647}

Literals(resource, receiver, key, strings, n) ==
    [resource_literal |-> resource,
     receiver_literal |-> receiver,
     key_string |-> key,
     module_name |-> strings[1],
     struct_name |-> strings[2],
     sequence_number |-> n,
     collection |-> strings[3],
     name |-> strings[4]]

Inputs ==
    {Literals(resource, receiver, key, strings, n) :
        resource \in ResourceLiterals, receiver \in ReceiverLiterals,
        key \in KeyStrings, strings \in StringProfiles,
        n \in SequenceNumbers}

\* the literals as the source has them
SourceLiterals ==
    Literals(RESOURCE_ADDRESS_LITERAL, NFT_RECEIVER_LITERAL,
             ADMIN_PRIVATE_KEY_STRING, Replaced({}, <<>>), 2)

(***************************************************************************)
(* Inputs of the signer alone (specification SpecSigner): challenges with  *)
(* any field values, built by any caller                                   *)
(***************************************************************************)
RECURSIVE FillsUpTo(_)
\* the strings of at most n bytes 1
FillsUpTo(n) == IF n = 0 THEN {<<>>} ELSE {Fill(n, 1)} \cup FillsUpTo(n - 1)

\* with a string of a zero byte, which reads like the prefix of an empty one
ShortStrings == FillsUpTo(MaxShortLen) \cup {<<0>>}

SignerAddresses ==
    {FromHexLiteral(RESOURCE_ADDRESS_LITERAL).val,
     FromHexLiteral(CAFE_LITERAL).val}

SignerKeys ==
    {FromEncodedString(ADMIN_PRIVATE_KEY_STRING).val,
     FromEncodedString(Fill(2 * ED25519_PRIVATE_KEY_LENGTH, "0")).val}

Challenge(account, module, struct, n, receiver, creator, collection, name) ==
    [account_address |-> account,
     module_name |-> module,
     struct_name |-> struct,
     receiver_account_sequence_number |-> n,
     receiver_account_address |-> receiver,
     token_data_id |->
        [creator |-> creator, collection |-> collection, name |-> name]]

\* Challenges that differ in one field or in two neighbouring fields.
SignerChallenges ==
    LET a == FromHexLiteral(CAFE_LITERAL).val
    IN  {Challenge(a, m, s, 1, a, a, <<>>, <<>>) :
            m \in ShortStrings, s \in ShortStrings}
        \cup {Challenge(a, <<>>, <<>>, 1, a, a, c, t) :
                c \in ShortStrings, t \in ShortStrings}
        \cup {Challenge(a, <<>>, s, n, a, a, <<>>, <<>>) :
                s \in ShortStrings, n \in {0, 1, 257}}
        \cup {Challenge(x, <<>>, <<>>, 1, y, z, <<>>, <<>>) :
                x \in SignerAddresses, y \in SignerAddresses,
                z \in SignerAddresses}

(***************************************************************************)
(* Initial states                                                          *)
(***************************************************************************)
\* One invocation, about to run line 59.
Init ==
    /\ pc = [r \in {1} |-> "new_resource"]
    /\ input \in [{1} -> Inputs]
    /\ resource_address = [r \in {1} |-> None]
    /\ nft_receiver = [r \in {1} |-> None]
    /\ admin_private_key = [r \in {1} |-> None]
    /\ token_data_id = [r \in {1} |-> None]
    /\ mint_proof = [r \in {1} |-> None]
    /\ mint_proof_msg = [r \in {1} |-> None]
    /\ mint_proof_signature = [r \in {1} |-> None]
    /\ stdout = [r \in {1} |-> None]
    /\ panic = [r \in {1} |-> ""]

\* Two independent invocations of the signer, each holding a challenge and a
\* decoded key, about to run line 92.
InitSigner ==
    /\ pc = [r \in {1, 2} |-> "to_bytes"]
    /\ input = [r \in {1, 2} |-> None]
    /\ resource_address = [r \in {1, 2} |-> None]
    /\ nft_receiver = [r \in {1, 2} |-> None]
    /\ admin_private_key \in [{1, 2} -> {Some(k) : k \in SignerKeys}]
    /\ token_data_id = [r \in {1, 2} |-> None]
    /\ mint_proof \in [{1, 2} -> {Some(c) : c \in SignerChallenges}]
    /\ mint_proof_msg = [r \in {1, 2} |-> None]
    /\ mint_proof_signature = [r \in {1, 2} |-> None]
    /\ stdout = [r \in {1, 2} |-> None]
    /\ panic = [r \in {1, 2} |-> ""]

(***************************************************************************)
(* The statements of generate_nft_tutorial_part4_signature                 *)
(***************************************************************************)
\* an unwrap() of an Err: the invocation ends with the error
Panics(r, error) ==
    /\ pc' = [pc EXCEPT ![r] = "panicked"]
    /\ panic' = [panic EXCEPT ![r] = error]

\* line 59
NewResourceAccount(r) ==
    /\ pc[r] = "new_resource"
    /\ LET address == FromHexLiteral(input[r].resource_literal)
       IN  IF address.ok
           THEN /\ resource_address' =
                       [resource_address EXCEPT ![r] = Some(address.val)]
                /\ pc' = [pc EXCEPT ![r] = "new_receiver"]
                /\ UNCHANGED panic
           ELSE /\ Panics(r, address.err)
                /\ UNCHANGED resource_address
    /\ UNCHANGED <<input, nft_receiver, admin_private_key, token_data_id,
                   mint_proof, mint_proof_msg, mint_proof_signature, stdout>>

\* line 64
NewReceiverAccount(r) ==
    /\ pc[r] = "new_receiver"
    /\ LET address == FromHexLiteral(input[r].receiver_literal)
       IN  IF address.ok
           THEN /\ nft_receiver' =
                       [nft_receiver EXCEPT ![r] = Some(address.val)]
                /\ pc' = [pc EXCEPT ![r] = "decode_key"]
                /\ UNCHANGED panic
           ELSE /\ Panics(r, address.err)
                /\ UNCHANGED nft_receiver
    /\ UNCHANGED <<input, resource_address, admin_private_key, token_data_id,
                   mint_proof, mint_proof_msg, mint_proof_signature, stdout>>

\* lines 68-71
DecodePrivateKey(r) ==
    /\ pc[r] = "decode_key"
    /\ LET key == FromEncodedString(input[r].key_string)
       IN  IF key.ok
           THEN /\ admin_private_key' =
                       [admin_private_key EXCEPT ![r] = Some(key.val)]
                /\ pc' = [pc EXCEPT ![r] = "build_token_data_id"]
                /\ UNCHANGED panic
           ELSE /\ Panics(r, key.err)
                /\ UNCHANGED admin_private_key
    /\ UNCHANGED <<input, resource_address, nft_receiver, token_data_id,
                   mint_proof, mint_proof_msg, mint_proof_signature, stdout>>

\* lines 74-78
BuildTokenDataId(r) ==
    /\ pc[r] = "build_token_data_id"
    /\ token_data_id' =
          [token_data_id EXCEPT ![r] =
              Some([creator |-> resource_address[r].val,
                    collection |-> input[r].collection,
                    name |-> input[r].name])]
    /\ pc' = [pc EXCEPT ![r] = "build_mint_proof"]
    /\ UNCHANGED <<input, resource_address, nft_receiver, admin_private_key,
                   mint_proof, mint_proof_msg, mint_proof_signature, stdout,
                   panic>>

\* lines 80-89
BuildMintProof(r) ==
    /\ pc[r] = "build_mint_proof"
    /\ mint_proof' =
          [mint_proof EXCEPT ![r] =
              Some([account_address |-> resource_address[r].val,
                    module_name |-> input[r].module_name,
                    struct_name |-> input[r].struct_name,
                    receiver_account_sequence_number |->
                        input[r].sequence_number,
                    receiver_account_address |-> nft_receiver[r].val,
                    token_data_id |-> token_data_id[r].val])]
    /\ pc' = [pc EXCEPT ![r] = "to_bytes"]
    /\ UNCHANGED <<input, resource_address, nft_receiver, admin_private_key,
                   token_data_id, mint_proof_msg, mint_proof_signature,
                   stdout, panic>>

\* a faulty line 92: the bytes of token_data_id alone
ToBytesOfTokenDataId(r) ==
    /\ pc[r] = "to_bytes"
    /\ mint_proof_msg' =
          [mint_proof_msg EXCEPT ![r] =
              Some(IF ToBytesResult(mint_proof[r].val).ok
                   THEN Ok(SerializeTokenDataId(mint_proof[r].val.token_data_id))
                   ELSE ToBytesResult(mint_proof[r].val))]
    /\ pc' = [pc EXCEPT ![r] = "sign"]
    /\ UNCHANGED <<input, resource_address, nft_receiver, admin_private_key,
                   token_data_id, mint_proof, mint_proof_signature, stdout,
                   panic>>

\* a faulty line 92: the signing key serialized along with the challenge
ToBytesWithKey(r) ==
    /\ pc[r] = "to_bytes"
    /\ mint_proof_msg' =
          [mint_proof_msg EXCEPT ![r] =
              Some(IF ToBytesResult(mint_proof[r].val).ok
                   THEN Ok(ToBytesResult(mint_proof[r].val).val
                           \o admin_private_key[r].val)
                   ELSE ToBytesResult(mint_proof[r].val))]
    /\ pc' = [pc EXCEPT ![r] = "sign"]
    /\ UNCHANGED <<input, resource_address, nft_receiver, admin_private_key,
                   token_data_id, mint_proof, mint_proof_signature, stdout,
                   panic>>

\* line 92
ToBytes(r) ==
    /\ pc[r] = "to_bytes"
    /\ mint_proof_msg' =
          [mint_proof_msg EXCEPT ![r] = Some(ToBytesResult(mint_proof[r].val))]
    /\ pc' = [pc EXCEPT ![r] = "sign"]
    /\ UNCHANGED <<input, resource_address, nft_receiver, admin_private_key,
                   token_data_id, mint_proof, mint_proof_signature, stdout,
                   panic>>

\* a faulty line 94: unwrap_or_default() in place of unwrap(), which signs
\* the empty message when serialization failed
SignMessageUnwrapOrDefault(r) ==
    /\ pc[r] = "sign"
    /\ LET msg == mint_proof_msg[r].val
       IN  mint_proof_signature' =
               [mint_proof_signature EXCEPT ![r] =
                   Some(SignArbitraryMessage(admin_private_key[r].val,
                                             IF msg.ok THEN msg.val ELSE <<>>))]
    /\ pc' = [pc EXCEPT ![r] = "print"]
    /\ UNCHANGED <<input, resource_address, nft_receiver, admin_private_key,
                   token_data_id, mint_proof, mint_proof_msg, stdout, panic>>

\* line 94: mint_proof_msg.unwrap(), then the signature over those bytes
SignMessage(r) ==
    /\ pc[r] = "sign"
    /\ LET msg == mint_proof_msg[r].val
       IN  IF msg.ok
           THEN /\ mint_proof_signature' =
                       [mint_proof_signature EXCEPT ![r] =
                           Some(SignArbitraryMessage(admin_private_key[r].val,
                                                     msg.val))]
                /\ pc' = [pc EXCEPT ![r] = "print"]
                /\ UNCHANGED panic
           ELSE /\ Panics(r, msg.err)
                /\ UNCHANGED mint_proof_signature
    /\ UNCHANGED <<input, resource_address, nft_receiver, admin_private_key,
                   token_data_id, mint_proof, mint_proof_msg, stdout>>

\* lines 95-98
PrintSignature(r) ==
    /\ pc[r] = "print"
    /\ stdout' = [stdout EXCEPT ![r] = mint_proof_signature[r]]
    /\ pc' = [pc EXCEPT ![r] = "done"]
    /\ UNCHANGED <<input, resource_address, nft_receiver, admin_private_key,
                   token_data_id, mint_proof, mint_proof_msg,
                   mint_proof_signature, panic>>

Next ==
    \/ \E r \in DOMAIN pc : NewResourceAccount(r)
    \/ \E r \in DOMAIN pc : NewReceiverAccount(r)
    \/ \E r \in DOMAIN pc : DecodePrivateKey(r)
    \/ \E r \in DOMAIN pc : BuildTokenDataId(r)
    \/ \E r \in DOMAIN pc : BuildMintProof(r)
    \/ \E r \in DOMAIN pc : ToBytes(r)
    \/ \E r \in DOMAIN pc : SignMessage(r)
    \/ \E r \in DOMAIN pc : PrintSignature(r)

\* serialize, then sign, then emit
NextSigner ==
    \/ \E r \in DOMAIN pc : ToBytes(r)
    \/ \E r \in DOMAIN pc : SignMessage(r)
    \/ \E r \in DOMAIN pc : PrintSignature(r)

Spec == Init /\ [][Next]_vars

SpecSigner == InitSigner /\ [][NextSigner]_vars


(***************************************************************************)
(* What the claims speak of                                                *)
(***************************************************************************)
Invocations == DOMAIN pc

\* invocation r holds the bytes bcs::to_bytes returned
Serialized(r) == mint_proof_msg[r].some /\ mint_proof_msg[r].val.ok

Msg(r) == mint_proof_msg[r].val.val

Proof(r) == mint_proof[r].val

\* the bytes of msg after the first offset, width of them
Slice(msg, offset, width) == SubSeq(msg, offset + 1, offset + width)

\* how many bytes the compact length prefix of an n-byte field takes
PrefixWidth(n) ==
    IF n < 128 THEN 1
    ELSE IF n < 16384 THEN 2
    ELSE IF n < 2097152 THEN 3
    ELSE IF n < 268435456 THEN 4
    ELSE 5

\* bytes a variable-length field takes: prefix and content
FieldWidth(v) == PrefixWidth(Len(v)) + Len(v)

\* where each field of challenge c starts in its serialization
ModuleNameOffset(c) == 32

StructNameOffset(c) == ModuleNameOffset(c) + FieldWidth(c.module_name)

SequenceNumberOffset(c) == StructNameOffset(c) + FieldWidth(c.struct_name)

ReceiverOffset(c) == SequenceNumberOffset(c) + 8

CreatorOffset(c) == ReceiverOffset(c) + 32

CollectionOffset(c) == CreatorOffset(c) + 32

NameOffset(c) == CollectionOffset(c) + FieldWidth(c.token_data_id.collection)

VariableLengthOffsets(c) ==
    <<ModuleNameOffset(c), StructNameOffset(c),
      CollectionOffset(c), NameOffset(c)>>

\* the source's literals, serialized
SourceSerialized(r) == Serialized(r) /\ input[r] = SourceLiterals

(***************************************************************************)
(* C3                                                                      *)
(***************************************************************************)
\* C3: the serialization of a challenge is the encodings of account_address,
\* module_name, struct_name, receiver_account_sequence_number,
\* receiver_account_address, then of token_data_id's creator, collection and
\* name, one after the other and nothing else.
C3_FieldOrderAndInlining ==
    \A r \in Invocations :
        Serialized(r) =>
            Msg(r) = SerializeAddress(Proof(r).account_address)
                     \o SerializeStr(Proof(r).module_name)
                     \o SerializeStr(Proof(r).struct_name)
                     \o SerializeU64(Proof(r).receiver_account_sequence_number)
                     \o SerializeAddress(Proof(r).receiver_account_address)
                     \o SerializeAddress(Proof(r).token_data_id.creator)
                     \o SerializeBytes(Proof(r).token_data_id.collection)
                     \o SerializeBytes(Proof(r).token_data_id.name)

\* the source's own challenge has been serialized
C3_Witness == \E r \in Invocations : SourceSerialized(r) /\ pc[r] = "sign"

(***************************************************************************)
(* C4                                                                      *)
(***************************************************************************)
\* the length prefixes the claim spells out
SpelledOutPrefix(n) ==
    CASE n = 0 -> <<0>>
      [] n = 1 -> <<1>>
      [] n = 127 -> <<127>>
      [] n = 128 -> <<128, 1>>
      [] n = 300 -> <<172, 2>>

RECURSIVE CompactValue(_)
\* the number a compact prefix stands for: 7 bits per byte, low group first
CompactValue(prefix) ==
    IF prefix = <<>> THEN 0
    ELSE (Head(prefix) % 128) + 128 * CompactValue(Tail(prefix))

\* prefix is the compact encoding of n: the continuation bit on every byte
\* but the last, no more bytes than n needs
IsCompactPrefixOf(prefix, n) ==
    /\ Len(prefix) = PrefixWidth(n)
    /\ \A i \in 1..(Len(prefix) - 1) : prefix[i] >= 128
    /\ prefix[Len(prefix)] < 128
    /\ CompactValue(prefix) = n

\* C4: module_name, struct_name, collection and name are each written as
\* the compact prefix of their length followed by exactly their bytes; the
\* prefix of 0, 1, 127 is that one byte, of 128 it is 80 01, of 300 AC 02.
C4_LengthPrefix ==
    \A r \in Invocations :
        Serialized(r) =>
            \A i \in 1..4 :
                LET v == VariableLengthFields(Proof(r))[i]
                    offset == VariableLengthOffsets(Proof(r))[i]
                    width == PrefixWidth(Len(v))
                    prefix == Slice(Msg(r), offset, width)
                IN  /\ IsCompactPrefixOf(prefix, Len(v))
                    /\ Slice(Msg(r), offset + width, Len(v)) = v
                    /\ Len(v) \in BoundaryLengths
                          => prefix = SpelledOutPrefix(Len(v))

\* a serialized challenge whose four fields are 127, 128, 300 and 0 bytes
C4_Witness ==
    \E r \in Invocations :
        /\ Serialized(r)
        /\ Len(Proof(r).module_name) = 127
        /\ Len(Proof(r).struct_name) = 128
        /\ Len(Proof(r).token_data_id.collection) = 300
        /\ Len(Proof(r).token_data_id.name) = 0

(***************************************************************************)
(* C5                                                                      *)
(***************************************************************************)
\* (n div 256^i) mod 256, for i in 0..7, without a power beyond 256^3
ByteOf(n, i) ==
    IF i <= 3 THEN (n \div 256 ^ i) % 256
    ELSE IF i <= 6 THEN ((n \div 256 ^ 3) \div 256 ^ (i - 3)) % 256
    ELSE (((n \div 256 ^ 3) \div 256 ^ 3) \div 256) % 256

\* C5: receiver_account_sequence_number takes exactly 8 bytes, byte i of
\* them being (n div 256^i) mod 256; 2 is 02 00 00 00 00 00 00 00.
C5_SequenceNumberLittleEndian ==
    \A r \in Invocations :
        Serialized(r) =>
            LET n == Proof(r).receiver_account_sequence_number
                offset == SequenceNumberOffset(Proof(r))
            IN  /\ \A i \in 0..7 : Msg(r)[offset + 1 + i] = ByteOf(n, i)
                /\ Slice(Msg(r), offset + 8, 32)
                      = Proof(r).receiver_account_address
                /\ n = 2 => Slice(Msg(r), offset, 8) = <<2, 0, 0, 0, 0, 0, 0, 0>>

\* a serialized challenge whose sequence number has four bytes set
C5_Witness ==
    \E r \in Invocations :
        /\ Serialized(r)
        /\ Proof(r).receiver_account_sequence_number = 16909060

(***************************************************************************)
(* C6                                                                      *)
(***************************************************************************)
\* C6: the three addresses are written as their 32 bytes, and the
\* serialization is 32 + 8 + 32 + 32 bytes and, for each of the four
\* variable-length fields, its prefix and its bytes: nothing else.
C6_RawAddressesNoPadding ==
    \A r \in Invocations :
        Serialized(r) =>
            LET c == Proof(r)
            IN  /\ Len(Msg(r)) =
                      32 + 8 + 32 + 32
                      + FieldWidth(c.module_name) + FieldWidth(c.struct_name)
                      + FieldWidth(c.token_data_id.collection)
                      + FieldWidth(c.token_data_id.name)
                /\ Slice(Msg(r), 0, 32) = c.account_address
                /\ Slice(Msg(r), ReceiverOffset(c), 32)
                      = c.receiver_account_address
                /\ Slice(Msg(r), CreatorOffset(c), 32) = c.token_data_id.creator

\* a serialized challenge with one- and two-byte prefixes and the short
\* "0xcafe" address, whose leading zero bytes are written out
C6_Witness ==
    \E r \in Invocations :
        /\ Serialized(r)
        /\ input[r].resource_literal = CAFE_LITERAL
        /\ Len(Proof(r).module_name) = 300
        /\ Len(Proof(r).struct_name) = 0
        /\ Len(Msg(r)) = 32 + 8 + 32 + 32 + 302 + 1 + 2 + 128

(***************************************************************************)
(* C1                                                                      *)
(***************************************************************************)
\* C1: the signature the function emits verifies, under the public key of
\* the private key it was given, against the serialization of the
\* challenge it built.
C1_RoundTripVerification ==
    \A r \in Invocations :
        /\ mint_proof_signature[r].some =>
              Verify(SerializeMintProofChallenge(Proof(r)),
                     mint_proof_signature[r].val,
                     PublicKeyOf(admin_private_key[r].val))
        /\ stdout[r].some =>
              Verify(SerializeMintProofChallenge(Proof(r)),
                     stdout[r].val,
                     PublicKeyOf(admin_private_key[r].val))
        /\ pc[r] = "done" => stdout[r].some

\* the source's own challenge, signed with the source's key and printed
C1_Witness ==
    \E r \in Invocations :
        pc[r] = "done" /\ stdout[r].some /\ input[r] = SourceLiterals

(***************************************************************************)
(* C7                                                                      *)
(***************************************************************************)
KeyMalformed(r) == ~FromEncodedString(input[r].key_string).ok

SerializationFailed(r) == mint_proof_msg[r].some /\ ~mint_proof_msg[r].val.ok

BeforeKeyDecoded == {"new_resource", "new_receiver", "decode_key"}

\* C7: with a malformed key the invocation ends at the decoding, with the
\* key's error, before a challenge is built; with a failed serialization it
\* ends at the unwrap of line 94, with the serialization's error; in both
\* cases no signature is made and none is printed.
C7_NoPartialSignature ==
    \A r \in Invocations :
        /\ KeyMalformed(r) =>
              /\ pc[r] \in BeforeKeyDecoded \cup {"panicked"}
              /\ pc[r] = "panicked" /\ resource_address[r].some
                    /\ nft_receiver[r].some
                    => panic[r] = FromEncodedString(input[r].key_string).err
              /\ ~token_data_id[r].some /\ ~mint_proof[r].some
              /\ ~mint_proof_msg[r].some
              /\ ~mint_proof_signature[r].some /\ ~stdout[r].some
        /\ SerializationFailed(r) =>
              /\ pc[r] \in {"sign", "panicked"}
              /\ pc[r] = "panicked" => panic[r] = mint_proof_msg[r].val.err
              /\ ~mint_proof_signature[r].some /\ ~stdout[r].some
        /\ pc[r] = "panicked" =>
              /\ panic[r] # ""
              /\ ~mint_proof_signature[r].some /\ ~stdout[r].some

\* an invocation that ended on the failed serialization of its challenge
C7_Witness ==
    \E r \in Invocations :
        pc[r] = "panicked" /\ SerializationFailed(r)
            /\ panic[r] = "ExceededMaxLen"

(***************************************************************************)
(* C9                                                                      *)
(***************************************************************************)
\* the encodings of the eight fields, in the declared order
FieldEncodings(c) ==
    <<SerializeAddress(c.account_address),
      SerializeStr(c.module_name),
      SerializeStr(c.struct_name),
      SerializeU64(c.receiver_account_sequence_number),
      SerializeAddress(c.receiver_account_address),
      SerializeAddress(c.token_data_id.creator),
      SerializeBytes(c.token_data_id.collection),
      SerializeBytes(c.token_data_id.name)>>

\* the bytes put together by hand with fields i and j in each other's place
SwappedBytes(c, i, j) ==
    Concat([k \in 1..8 |->
               IF k = i THEN FieldEncodings(c)[j]
               ELSE IF k = j THEN FieldEncodings(c)[i]
               ELSE FieldEncodings(c)[k]])

AddressFields == {1, 5, 6}

LengthPrefixedFields == {2, 3, 7, 8}

SameKind(i, j) ==
    \/ i \in AddressFields /\ j \in AddressFields
    \/ i \in LengthPrefixedFields /\ j \in LengthPrefixedFields

\* C9 as claimed: for every challenge, the bytes with any two fields in each
\* other's place differ from the serialization.
C9_AnySwapChangesBytes ==
    \A r \in Invocations :
        Serialized(r) =>
            \A i \in 1..8 : \A j \in (i + 1)..8 :
                SwappedBytes(Proof(r), i, j) # Msg(r)

\* C9, amended: the bytes with two fields of the same kind (two addresses,
\* or two length-prefixed fields) in each other's place differ from the
\* serialization exactly when the two fields hold different values.
C9_SwapOfDifferentValuesChangesBytes ==
    \A r \in Invocations :
        Serialized(r) =>
            \A i \in 1..8 : \A j \in (i + 1)..8 :
                SameKind(i, j) =>
                    (SwappedBytes(Proof(r), i, j) # Msg(r)
                        <=> FieldEncodings(Proof(r))[i]
                                # FieldEncodings(Proof(r))[j])

\* the source's own challenge, serialized and signed: module_name and
\* struct_name differ, as do account_address and receiver_account_address
C9_Witness ==
    \E r \in Invocations :
        /\ SourceSerialized(r) /\ pc[r] = "print"
        /\ Proof(r).module_name # Proof(r).struct_name
        /\ Proof(r).account_address # Proof(r).receiver_account_address

(***************************************************************************)
(* C2                                                                      *)
(***************************************************************************)
\* C2: two invocations given the same challenge hold the same bytes,
\* whatever key each was given.
C2_Determinism ==
    \A r1 \in Invocations : \A r2 \in Invocations :
        Serialized(r1) /\ Serialized(r2) /\ Proof(r1) = Proof(r2)
            => Msg(r1) = Msg(r2)

\* two invocations with the same challenge and different keys, both
\* serialized
C2_Witness ==
    \E r1 \in Invocations : \E r2 \in Invocations :
        /\ r1 # r2
        /\ Serialized(r1) /\ Serialized(r2)
        /\ Proof(r1) = Proof(r2)
        /\ admin_private_key[r1] # admin_private_key[r2]

(***************************************************************************)
(* C10                                                                     *)
(***************************************************************************)
\* C10: two invocations given challenges that differ in a field hold
\* different bytes, and the signature of either does not verify against the
\* bytes of the other.
C10_Injectivity ==
    \A r1 \in Invocations : \A r2 \in Invocations :
        Serialized(r1) /\ Serialized(r2) /\ Proof(r1) # Proof(r2) =>
            /\ Msg(r1) # Msg(r2)
            /\ mint_proof_signature[r1].some =>
                  ~Verify(Msg(r2), mint_proof_signature[r1].val,
                          PublicKeyOf(admin_private_key[r1].val))

\* two signed challenges that differ by a byte moved from module_name to
\* struct_name
C10_Witness ==
    \E r1 \in Invocations : \E r2 \in Invocations :
        /\ mint_proof_signature[r1].some /\ mint_proof_signature[r2].some
        /\ Proof(r1).module_name = <<1>> /\ Proof(r1).struct_name = <<>>
        /\ Proof(r2).module_name = <<>> /\ Proof(r2).struct_name = <<1>>
        /\ Proof(r1).token_data_id = Proof(r2).token_data_id

=============================================================================
